---------------------------- MODULE Spec2Model ----------------------------
(***************************************************************************)
(* A model of FAAClient (src/faa_notam_lib.py): the OAuth token cache of   *)
(* _authenticate, the authenticated fetch of get_raw_notams, and the       *)
(* filter / normalise / deduplicate pass of search_notams.                 *)
(*                                                                         *)
(* Python strings are modelled as sequences of one-character strings, so   *)
(* that upper(), strip(), slicing, split() and the regular expressions of  *)
(* the source are computed, not assumed.  A JSON field that is absent (or  *)
(* null) is the value Absent.                                              *)
(***************************************************************************)
EXTENDS Integers, Sequences, FiniteSets, TLC

(***************************************************************************)
(* Bounds of the model.                                                    *)
(***************************************************************************)
\* ticks of the clock per second: time.time() is a float, int() floors it
TicksPerSec == 2
\* the clock stops advancing at this many ticks
MaxNow == 8
\* search_notams calls made on the one client of Spec
MaxCalls == 3
\* longest feed of SpecSearch (the deduplication claims)
MaxFeed == 3
\* longest feed of SpecFilter (the search-filter claims)
MaxFilterFeed == 2
\* longest feed of Spec (the client lifecycle)
MaxClientFeed == 1

(***************************************************************************)
(* Python str operations.                                                  *)
(***************************************************************************)
Absent == <<"<absent>">>

LowerAlpha == <<"a","b","c","d","e","f","g","h","i","j","k","l","m",
                "n","o","p","q","r","s","t","u","v","w","x","y","z">>

UpperAlpha == <<"A","B","C","D","E","F","G","H","I","J","K","L","M",
                "N","O","P","Q","R","S","T","U","V","W","X","Y","Z">>

Digits == {"0","1","2","3","4","5","6","7","8","9"}

Whitespace == {" ", "\t", "\n", "\r"}

Min(a, b) == IF a < b THEN a ELSE b

Max(a, b) == IF a > b THEN a ELSE b

Abs(a) == IF a < 0 THEN -a ELSE a

\* str.upper() on one character
UpperChar(c) ==
    IF \E k \in 1..26 : LowerAlpha[k] = c
    THEN UpperAlpha[CHOOSE k \in 1..26 : LowerAlpha[k] = c]
    ELSE c

\* str.upper()
Upper(s) == [k \in 1..Len(s) |-> UpperChar(s[k])]

\* s[a:b] for 0 <= a, 0 <= b (Python clamps both to len(s))
Slice(s, a, b) ==
    LET lo == Min(a, Len(s))
        hi == Min(b, Len(s))
    IN  IF lo >= hi THEN <<>> ELSE SubSeq(s, lo + 1, hi)

\* s[a:]
SliceFrom(s, a) == Slice(s, a, Len(s))

\* s[-n:] for n > 0
LastN(s, n) == SliceFrom(s, Max(Len(s) - n, 0))

\* s.startswith(p)
StartsWith(s, p) == Len(p) <= Len(s) /\ SubSeq(s, 1, Len(p)) = p

\* p occurs in s at 1-based position k
OccursAt(s, p, k) ==
    /\ k >= 1
    /\ k + Len(p) - 1 <= Len(s)
    /\ \A j \in 1..Len(p) : s[k + j - 1] = p[j]

\* p in s
Contains(s, p) == \E k \in 1..(Len(s) + 1) : OccursAt(s, p, k)

\* s.strip(): leading and trailing whitespace removed
Strip(s) ==
    LET keep == {k \in 1..Len(s) : s[k] \notin Whitespace}
    IN  IF keep = {} THEN <<>>
        ELSE LET lo == CHOOSE k \in keep : \A j \in keep : k <= j
                 hi == CHOOSE k \in keep : \A j \in keep : k >= j
             IN  SubSeq(s, lo, hi)

\* s.isdigit()
IsDigitStr(s) == Len(s) > 0 /\ \A k \in 1..Len(s) : s[k] \in Digits

\* every occurrence of a character of cs removed: re.sub('[cs]', '', s),
\* and s.replace(c, '') for a single character
RemoveChars(s, cs) == SelectSeq(s, LAMBDA c : c \notin cs)

\* the positions of the separator c in s
SepPositions(s, c) == {k \in 1..Len(s) : s[k] = c}

\* s.split(c)[0]
SplitFirst(s, c) ==
    LET ps == SepPositions(s, c)
    IN  IF ps = {} THEN s
        ELSE SubSeq(s, 1, (CHOOSE k \in ps : \A j \in ps : k <= j) - 1)

\* s.split(c)[1] when s holds exactly one c
SplitSecond(s, c) ==
    LET p == CHOOSE k \in SepPositions(s, c) : TRUE
    IN  SubSeq(s, p + 1, Len(s))

\* str(x).zfill(w) for an unsigned x
Zfill(s, w) == [k \in 1..Max(w - Len(s), 0) |-> "0"] \o s

\* dict.get(key, default): the default only when the key is absent
GetOr(v, default) == IF v = Absent THEN default ELSE v

\* (x or ""): the empty string when the value is absent, null or empty
OrEmpty(v) == IF v = Absent THEN <<>> ELSE v

(***************************************************************************)
(* The fragment of Python's re the source and the modelled queries use:    *)
(* literal characters, "." (any character but a newline) and "[", which    *)
(* opens a character set.  The modelled queries hold no "]", so a pattern  *)
(* holding "[" is an unterminated set that re refuses to compile.          *)
(***************************************************************************)
WordChars == {LowerAlpha[k] : k \in 1..26} \cup {UpperAlpha[k] : k \in 1..26}
             \cup Digits \cup {"_"}

\* re.compile(pattern) succeeds
ReCompiles(pattern) == \A k \in 1..Len(pattern) : pattern[k] # "["

\* one pattern character against one text character under re.IGNORECASE
ReCharMatches(p, c) ==
    IF p = "." THEN c # "\n" ELSE UpperChar(p) = UpperChar(c)

\* re.search(pattern, text, re.IGNORECASE) for a pattern that compiles
ReSearchIgnoreCase(pattern, text) ==
    \E k \in 1..(Len(text) + 1) :
        /\ k + Len(pattern) - 1 <= Len(text)
        /\ \A j \in 1..Len(pattern) : ReCharMatches(pattern[j], text[k + j - 1])

\* \b holds between positions k-1 and k of text (1-based, k in 1..Len+1)
WordBoundary(text, k) ==
    LET before == k > 1 /\ text[k - 1] \in WordChars
        after  == k <= Len(text) /\ text[k] \in WordChars
    IN  before # after

\* re.search(r"\bword\b", text)
HasStandaloneWord(text, word) ==
    \E k \in 1..(Len(text) + 1) :
        /\ OccursAt(text, word, k)
        /\ WordBoundary(text, k)
        /\ WordBoundary(text, k + Len(word))

\* the pattern of line 70 without its lookahead (?![0-9])
HasNumberTokenNoLookahead(text, q) ==
    \E k \in 1..(Len(text) + 1) :
        /\ OccursAt(text, q, k)
        /\ ~(k > 1 /\ text[k - 1] \in Digits)

\* re.search(r"(?<!\d)" + re.escape(q) + r"(?![0-9])", text)
HasNumberToken(text, q) ==
    \E k \in 1..(Len(text) + 1) :
        /\ OccursAt(text, q, k)
        /\ ~(k > 1 /\ text[k - 1] \in Digits)
        /\ ~(k + Len(q) <= Len(text) /\ text[k + Len(q)] \in Digits)

(***************************************************************************)
(* Search filter: search_notams, lines 50-83.                              *)
(***************************************************************************)
\* query_str = str(query).strip()
QueryStr(query) == Strip(query)

\* query_upper = query_str.upper() if not is_regex else ""
QueryUpper(query, is_regex) == IF is_regex THEN <<>> ELSE Upper(QueryStr(query))

\* full_text = f"{raw_text} {formatted}".upper()
FullText(item) ==
    Upper(GetOr(item.text, <<>>) \o <<" ">> \o GetOr(item.formatted, <<>>))

\* the runway branch: "raise" is the re.error of line 68, which nothing catches
RunwayOutcome(full_text, query_str, query_upper, is_regex) ==
    LET has_rwy_word == \/ HasStandaloneWord(full_text, <<"R", "W", "Y">>)
                        \/ HasStandaloneWord(full_text, <<"R", "U", "N", "W", "A", "Y">>)
    IN  IF is_regex /\ ~ReCompiles(query_str) THEN "raise"
        ELSE LET has_number == IF is_regex
                               THEN ReSearchIgnoreCase(query_str, full_text)
                               ELSE HasNumberToken(full_text, query_upper)
             IN  IF has_rwy_word /\ has_number THEN "match" ELSE "nomatch"

\* the keyword branch: the except clause of line 79 tests query_upper
KeywordOutcome(full_text, query_str, query_upper, is_regex) ==
    IF is_regex
    THEN IF ReCompiles(query_str)
         THEN IF ReSearchIgnoreCase(query_str, full_text) THEN "match" ELSE "nomatch"
         ELSE IF Contains(full_text, query_upper) THEN "match" ELSE "nomatch"
    ELSE IF Contains(full_text, query_upper) THEN "match" ELSE "nomatch"

\* line 63 testing only for the empty query, not for search_type == "all"
MatchOutcomeEmptyOnly(item, query, search_type, is_regex) ==
    LET query_str   == QueryStr(query)
        query_upper == QueryUpper(query, is_regex)
        full_text   == FullText(item)
    IN  IF query_str = <<>> THEN "match"
        ELSE IF search_type = "runway"
             THEN RunwayOutcome(full_text, query_str, query_upper, is_regex)
             ELSE KeywordOutcome(full_text, query_str, query_upper, is_regex)

\* is_match of one feature, or "raise" when the filter raises
MatchOutcome(item, query, search_type, is_regex) ==
    LET query_str   == QueryStr(query)
        query_upper == QueryUpper(query, is_regex)
        full_text   == FullText(item)
    IN  IF query_str = <<>> \/ search_type = "all" THEN "match"
        ELSE IF search_type = "runway"
             THEN RunwayOutcome(full_text, query_str, query_upper, is_regex)
             ELSE KeywordOutcome(full_text, query_str, query_upper, is_regex)

(***************************************************************************)
(* Field normaliser: search_notams, lines 86-152.                          *)
(***************************************************************************)
DOM == <<"D", "O", "M">>

INTL == <<"I", "N", "T", "L">>

\* series = str(notam.get('series') or "").strip()
Series(item) == Strip(OrEmpty(item.series))

\* raw_num = str(notam.get('number', '0000')).strip()
RawNum(item) == Strip(GetOr(item.number, <<"0", "0", "0", "0">>))

\* the series prefix stripped if raw_num starts with it
NumberNoSeries(item) ==
    LET series == Series(item)
        raw_num == RawNum(item)
    IN  IF series # <<>> /\ StartsWith(raw_num, series)
        THEN SliceFrom(raw_num, Len(series))
        ELSE raw_num

\* line 95 without the test len(parts[1]) <= 2
CleanNumberAnySuffix(item) ==
    LET number == NumberNoSeries(item)
    IN  IF /\ Cardinality(SepPositions(number, "/")) = 1
           /\ IsDigitStr(SplitSecond(number, "/"))
        THEN SplitFirst(number, "/")
        ELSE number

\* a trailing "/" suffix of one or two digits dropped
CleanNumber(item) ==
    LET number == NumberNoSeries(item)
    IN  IF /\ Cardinality(SepPositions(number, "/")) = 1
           /\ IsDigitStr(SplitSecond(number, "/"))
           /\ Len(SplitSecond(number, "/")) <= 2
        THEN SplitFirst(number, "/")
        ELSE number

\* year: the last two characters, "26" when there is none
Year(item) ==
    LET raw_year == Strip(GetOr(item.year, <<>>))
        year == IF Len(raw_year) > 2 THEN LastN(raw_year, 2) ELSE raw_year
    IN  IF year = <<>> THEN <<"2", "6">> ELSE year

\* type_code = notam.get('type', 'N')
TypeCode(item) == GetOr(item.type, <<"N">>)

\* icao_date(dt_str)
IcaoDate(dt_str) ==
    IF dt_str = <<>> THEN <<"P", "E", "R", "M">>
    ELSE Slice(RemoveChars(dt_str, {"-", ":", "T"}), 2, 12)

\* line 141 emitting the K-prefixed form of a 3-character code
LocStrPrefixed(item) ==
    LET upper == Upper(OrEmpty(item.location))
    IN  IF Len(upper) = 3 THEN <<"K">> \o upper ELSE upper

\* loc_str = str(notam_info.get('location') or "").upper()
LocStr(item) == Upper(OrEmpty(item.location))

\* norm_loc: JFK -> KJFK
NormLoc(loc_str) ==
    IF StartsWith(loc_str, <<"K">>) /\ Len(loc_str) = 4 THEN loc_str
    ELSE IF Len(loc_str) = 3 THEN <<"K">> \o loc_str ELSE loc_str

\* q_code = notam_info.get('selectionCode', 'XXXXX')
QCode(item) == GetOr(item.selectionCode, <<"X", "X", "X", "X", "X">>)

\* n_start, n_end: every Z removed, cut at the first "."
NormTime(effective) == SplitFirst(RemoveChars(effective, {"Z"}), ".")

\* n_subj = q_code[1:3] if len(q_code) >= 3 else q_code
NSubj(q_code) == IF Len(q_code) >= 3 THEN Slice(q_code, 1, 3) ELSE q_code

\* the "_n_key" tuple
NKey(item) ==
    << NSubj(QCode(item)),
       NormTime(OrEmpty(item.effectiveStart)),
       NormTime(OrEmpty(item.effectiveEnd)),
       NormLoc(LocStr(item)) >>

\* q_line
QLine(item) ==
    LET coord == GetOr(item.coordinates, <<>>)
        q_coord == IF coord # <<>>
                   THEN coord \o Zfill(GetOr(item.radius, <<>>), 3)
                   ELSE <<"X", "X", "X", "X", "X", "/", ".", ".", ".">>
    IN  <<"Q", ")", " ">>
        \o GetOr(item.affectedFir, <<"X", "X", "X", "X">>) \o <<"/">>
        \o QCode(item) \o <<"/">>
        \o GetOr(item.traffic, <<"I", "V">>) \o <<"/">>
        \o GetOr(item.purpose, <<"N", "B", "O">>) \o <<"/">>
        \o GetOr(item.scope, <<"A">>) \o <<"/">>
        \o GetOr(item.minimumFl, <<"0", "0", "0">>) \o <<"/">>
        \o GetOr(item.maximumFl, <<"9", "9", "9">>) \o <<"/">>
        \o q_coord

\* "id": f"{series}{number}/{year} NOTAM{type_code}"
NotamId(item) ==
    Series(item) \o CleanNumber(item) \o <<"/">> \o Year(item)
    \o <<" ", "N", "O", "T", "A", "M">> \o TypeCode(item)

\* new_notam
NewNotam(item) ==
    [ id             |-> NotamId(item),
      location       |-> LocStr(item),
      start          |-> IcaoDate(OrEmpty(item.effectiveStart)),
      end            |-> IcaoDate(OrEmpty(item.effectiveEnd)),
      text           |-> GetOr(item.text, <<>>),
      full_icao      |-> GetOr(item.formatted, <<>>),
      status         |-> GetOr(item.status, <<"A", "c", "t", "i", "v", "e">>),
      q_line         |-> QLine(item),
      schedule       |-> GetOr(item.schedule, <<>>),
      keyword        |-> QCode(item),
      classification |-> GetOr(item.classification, DOM),
      n_key          |-> NKey(item) ]

(***************************************************************************)
(* Deduplicator: search_notams, lines 154-175.                             *)
(***************************************************************************)
\* the similarity threshold of line 162
SimilarityThreshold == 30

\* re.sub(r'^' + re.escape(loc_str) + r'\s*', '', text)
StripLocPrefix(loc_str, text) ==
    IF StartsWith(text, loc_str)
    THEN LET rest == SliceFrom(text, Len(loc_str))
             solid == {k \in 1..Len(rest) : rest[k] \notin Whitespace}
         IN  IF solid = {} THEN <<>>
             ELSE SubSeq(rest, CHOOSE k \in solid : \A j \in solid : k <= j, Len(rest))
    ELSE text

\* t1, t2: the text stripped, freed of the leading location, uppercased
SimText(loc_str, text) == Upper(StripLocPrefix(loc_str, Strip(text)))

\* t1 in t2 or t2 in t1 or abs(len(t1) - len(t2)) < 30
TextSimilar(t1, t2) ==
    \/ Contains(t2, t1)
    \/ Contains(t1, t2)
    \/ Abs(Len(t1) - Len(t2)) < SimilarityThreshold

\* lines 156-162 without the key comparison of line 156
MergeCandidateTextOnly(existing, new_notam) ==
    TextSimilar(SimText(new_notam.location, existing.text),
                SimText(new_notam.location, new_notam.text))

\* existing is a merge candidate of new_notam (lines 156-162)
MergeCandidate(existing, new_notam) ==
    /\ existing.n_key = new_notam.n_key
    /\ TextSimilar(SimText(new_notam.location, existing.text),
                   SimText(new_notam.location, new_notam.text))

\* the loop of line 155 looking only at the record accumulated last
ExistingIdxLastOnly(list, new_notam) ==
    IF list # <<>> /\ MergeCandidate(list[Len(list)], new_notam)
    THEN Len(list) ELSE 0

\* existing_idx: the first merge candidate (1-based), 0 for None
ExistingIdx(list, new_notam) ==
    LET hits == {k \in 1..Len(list) : MergeCandidate(list[k], new_notam)}
    IN  IF hits = {} THEN 0 ELSE CHOOSE k \in hits : \A j \in hits : k <= j

\* line 168: the new record replaces the existing one
MergeReplaces(new_notam, existing) ==
    new_notam.classification = INTL \/ Len(new_notam.id) > Len(existing.id)

\* lines 166-171 with the retained record moved to the end of the list
AccumulateMovesToEnd(list, new_notam) ==
    LET existing_idx == ExistingIdx(list, new_notam)
    IN  IF existing_idx # 0
        THEN IF MergeReplaces(new_notam, list[existing_idx])
             THEN Append(SubSeq(list, 1, existing_idx - 1)
                         \o SubSeq(list, existing_idx + 1, Len(list)), new_notam)
             ELSE list
        ELSE Append(list, new_notam)

\* lines 154-171: filtered_list after new_notam is merged or appended
Accumulate(list, new_notam) ==
    LET existing_idx == ExistingIdx(list, new_notam)
    IN  IF existing_idx # 0
        THEN IF MergeReplaces(new_notam, list[existing_idx])
             THEN [list EXCEPT ![existing_idx] = new_notam]
             ELSE list
        ELSE Append(list, new_notam)

\* n.pop('_n_key', None)
PopKey(n) == [f \in (DOMAIN n) \ {"n_key"} |-> n[f]]

\* the loop of line 174 popping the key of the first record only
CleanupFirstOnly(list) ==
    [k \in 1..Len(list) |-> IF k = 1 THEN PopKey(list[k]) ELSE list[k]]

\* lines 174-177: the returned list
Cleanup(list) == [k \in 1..Len(list) |-> PopKey(list[k])]

(***************************************************************************)
(* The upstream: the features, feeds, queries and token responses the      *)
(* model draws its inputs from.                                            *)
(***************************************************************************)
Pad(n) == [k \in 1..n |-> "X"]

TextRwy07 == <<"R", "W", "Y", " ", "0", "7", " ", "C", "L", "S", "D">>

StartMillis == <<"2", "0", "2", "6", "-", "0", "2", "-", "2", "3", "T",
                 "1", "7", ":", "0", "0", ":", "0", "0", ".", "0", "0", "0", "Z">>

StartSeconds == <<"2", "0", "2", "6", "-", "0", "2", "-", "2", "3", "T",
                  "1", "7", ":", "0", "0", ":", "0", "0", "Z">>

\* a domestic notice with no series: id "0164/26 NOTAMN"
DomShort ==
    [ text |-> TextRwy07, formatted |-> Absent,
      series |-> <<>>, number |-> <<"0", "1", "6", "4">>, year |-> <<"2", "6">>,
      type |-> <<"N">>, location |-> <<"J", "F", "K">>,
      effectiveStart |-> StartMillis, effectiveEnd |-> Absent,
      status |-> Absent, schedule |-> Absent, classification |-> DOM,
      selectionCode |-> <<"Q", "M", "R", "L", "C">>,
      affectedFir |-> <<"K", "Z", "N", "Y">>, traffic |-> Absent,
      purpose |-> Absent, scope |-> Absent, minimumFl |-> Absent,
      maximumFl |-> Absent, coordinates |-> Absent, radius |-> Absent ]

\* the same notice with its series: id "A0041/26 NOTAMN"
DomLong ==
    [DomShort EXCEPT !.series = <<"A">>,
                     !.number = <<"A", "0", "0", "4", "1", "/", "2", "6">>,
                     !.year = <<"2", "0", "2", "6">>]

\* the international rendering of the same notice, no series
IntlShort ==
    [DomShort EXCEPT !.classification = INTL,
                     !.location = <<"K", "J", "F", "K">>,
                     !.text = <<"K", "J", "F", "K", " ">> \o TextRwy07,
                     !.effectiveStart = StartSeconds,
                     !.coordinates = <<"4", "0", "3", "8", "N", "0", "7", "3", "4", "6", "W">>,
                     !.radius = <<"5">>]

\* the international rendering with its series
IntlLong ==
    [IntlShort EXCEPT !.series = <<"A">>,
                      !.number = <<"A", "0", "0", "4", "1", "/", "2", "6">>,
                      !.year = <<"2", "0", "2", "6">>]

\* same key, a text 32 characters longer than TextRwy07 and not holding it
LongText ==
    [DomShort EXCEPT !.text = <<"R", "W", "Y", " ", "0", "7", "R", " ",
                                "C", "L", "S", "D", " ">> \o Pad(30)]

\* same key, a text within 30 characters of both TextRwy07 and LongText's
MidText ==
    [DomShort EXCEPT !.classification = INTL,
                     !.text = <<"T", "W", "Y", " ", "B", " ",
                                "C", "L", "S", "D", " ">> \o Pad(14)]

\* a cancellation of the notice
Cancel == [IntlLong EXCEPT !.type = <<"C">>]

\* an unrelated notice: another subject, another airport
Other ==
    [DomShort EXCEPT !.selectionCode = <<"Q", "F", "A", "L", "C">>,
                     !.location = <<"l", "a", "x">>,
                     !.text = <<"R", "W", "Y", " ", "0", "7", "5", " ",
                                "C", "L", "S", "D">>,
                     !.effectiveEnd = StartSeconds]

\* a lower-case text naming runway 07R
LowerRwy07R ==
    [DomShort EXCEPT !.text = <<"r", "w", "y", " ", "0", "7", "r", " ",
                                "c", "l", "s", "d">>,
                     !.selectionCode = Absent]

\* no runway word in the raw text; the translation names the runway
Translated ==
    [DomShort EXCEPT !.text = <<"T", "W", "Y", " ", "B", " ", "C", "L", "S", "D">>,
                     !.formatted = <<"R", "U", "N", "W", "A", "Y", " ", "0", "7">>,
                     !.location = Absent]

\* an open-ended notice whose end reads "PERM" and whose start is a date with
\* no time of day; ICAO location, no number
OpenEnded ==
    [DomShort EXCEPT !.effectiveStart = <<"2", "0", "2", "6", "-", "0", "3", "-", "0", "1">>,
                     !.effectiveEnd = <<"P", "E", "R", "M">>,
                     !.location = <<"K", "J", "F", "K">>,
                     !.number = Absent]

\* a padded series, a number with two "/", an empty year
TwoSlashes ==
    [DomShort EXCEPT !.series = <<" ", "A">>,
                     !.number = <<"A", "1", "2", "/", "3", "/", "4">>,
                     !.year = <<>>,
                     !.location = <<"e", "g", "l", "l">>]

\* a series the number does not start with, a "/" suffix of four digits,
\* no year, no type
SeriesApart ==
    [DomShort EXCEPT !.series = <<"B">>,
                     !.number = <<"A", "0", "0", "4", "1", "/", "2", "0", "2", "6">>,
                     !.year = Absent,
                     !.type = Absent,
                     !.location = <<"j", "f", "k">>]

SearchPool == {DomShort, DomLong, IntlShort, IntlLong, LongText, MidText, Cancel, Other}

FilterPool == {DomShort, DomLong, Other, LowerRwy07R, Translated, Cancel,
               OpenEnded, TwoSlashes, SeriesApart}

ClientPool == {DomShort, IntlLong, Cancel}

\* the sequences of at most n features of pool
FeedsOf(pool, n) == UNION {[1..k -> pool] : k \in 0..n}

SearchTypes == {"keyword", "runway", "all"}

SearchQueries == {<<>>, <<"0", "7">>}

FilterQueries == {<<>>, <<" ">>, <<"0", "7">>, <<"r", "w", "y">>, <<"[">>,
                  <<"0", ".">>, <<"0", "7", "R">>}

ClientQueries == {<<>>, <<"[">>}

Success == <<"S", "u", "c", "c", "e", "s", "s">>

\* the top-level status of a feed: "Success", another string, or none
FeedStatuses == {Success, <<"E", "r", "r", "o", "r">>, Absent}

\* the lifetimes (seconds) the token endpoint advertises, when it does
ServerLifetimes == {61, 62}

\* a token response with no expires_in field
NoExpiresIn == -1

\* the responses the token endpoint can give to the id-th POST
PostResponses(id) ==
    {[kind |-> "ok", token |-> id, expires_in |-> e] :
        e \in ServerLifetimes \cup {NoExpiresIn}}
    \cup {[kind |-> k, token |-> 0, expires_in |-> NoExpiresIn] :
            k \in {"http_error", "no_access_token"}}

NoResponse == [kind |-> "none", token |-> 0, expires_in |-> NoExpiresIn]

NoData == [status |-> Absent, geojson |-> <<>>, fetched |-> FALSE]

NoReturn == [kind |-> "none", val |-> <<>>, err |-> "none"]

Returns(list) == [kind |-> "return", val |-> list, err |-> "none"]

Raises(e) == [kind |-> "raise", val |-> <<>>, err |-> e]

Threads == {1, 2}

(***************************************************************************)
(* State.                                                                  *)
(***************************************************************************)
VARIABLES
    now,            \* time.time(), in ticks
    access_token,   \* self._access_token: 0 for None, else the id of the token
    expires_at,     \* self._expires_at, in seconds
    expires_src,    \* the token response whose lifetime expires_at was computed from
    posts,          \* POSTs received by the token endpoint
    gets,           \* GETs received by the NOTAM endpoint
    calls,          \* search_notams calls started
    pc,             \* where the one sequential caller is: idle, auth, get, loop
    query,          \* the arguments of the running call
    search_type,
    is_regex,
    post_resp,      \* the response to the POST of the running call, if any
    raw_data,       \* the feed fetched by the running call
    idx,            \* features already consumed by the loop of line 53
    is_match,       \* is_match of the feature consumed last
    filtered_list,  \* filtered_list
    origin,         \* origin[k]: the position in the feed of the feature of filtered_list[k]
    ret,            \* how the call ended: a returned list or a raised error
    trace,          \* the requests the running call issued, in order
    rpc,            \* per thread: its place in _authenticate (concurrent callers)
    upstream,       \* the feed the NOTAM endpoint serves while it is unchanged
    prev_ret,       \* what the previous call on this client returned or raised
    rresp           \* per thread: the token response it holds

clientVars == <<access_token, expires_at, expires_src>>

netVars == <<posts, gets>>

callVars == <<pc, query, search_type, is_regex, post_resp, raw_data, ret, trace>>

loopVars == <<idx, is_match, filtered_list, origin>>

raceVars == <<rpc, rresp>>

histVars == <<upstream, prev_ret>>

vars == <<now, access_token, expires_at, expires_src, posts, gets, calls,
          pc, query, search_type, is_regex, post_resp, raw_data,
          idx, is_match, filtered_list, origin, ret, trace, rpc, rresp,
          upstream, prev_ret>>

features == raw_data.geojson

(***************************************************************************)
(* Token manager: _authenticate, lines 15-24.                              *)
(***************************************************************************)
ExpiryMargin == 60

DefaultLifetime == 1799

\* int(time.time())
IntSeconds(t) == t \div TicksPerSec

\* line 16 with the safety margin forgotten
CacheValidNoMargin ==
    access_token # 0 /\ now < expires_at * TicksPerSec

\* line 16: self._access_token and time.time() < (self._expires_at - 60)
CacheValid ==
    access_token # 0 /\ now < (expires_at - ExpiryMargin) * TicksPerSec

\* int(data.get('expires_in', 1799))
Lifetime(resp) ==
    IF resp.expires_in = NoExpiresIn THEN DefaultLifetime ELSE resp.expires_in

\* the clock advances; only _authenticate reads it
Tick ==
    /\ pc \in {"idle", "auth"}
    /\ now < MaxNow
    /\ now' = now + 1
    /\ UNCHANGED <<clientVars, netVars, calls, callVars, loopVars, raceVars, histVars>>

\* a call whose loop of line 53 resumes where the previous call's loop stopped
CallStartKeepsIdx(q, st, rx) ==
    /\ pc = "idle"
    /\ calls < MaxCalls
    /\ calls' = calls + 1
    /\ pc' = "auth"
    /\ query' = q
    /\ search_type' = st
    /\ is_regex' = rx
    /\ post_resp' = NoResponse
    /\ raw_data' = NoData
    /\ ret' = NoReturn
    /\ trace' = <<>>
    /\ is_match' = FALSE
    /\ filtered_list' = <<>>
    /\ origin' = <<>>
    /\ UNCHANGED <<now, clientVars, netVars, raceVars, idx>>

\* search_notams(location, query, search_type, is_regex) is entered: every
\* local of the call is fresh, the client keeps only its token
CallStart(q, st, rx) ==
    /\ pc = "idle"
    /\ calls < MaxCalls
    /\ calls' = calls + 1
    /\ pc' = "auth"
    /\ query' = q
    /\ search_type' = st
    /\ is_regex' = rx
    /\ post_resp' = NoResponse
    /\ raw_data' = NoData
    /\ ret' = NoReturn
    /\ trace' = <<>>
    /\ idx' = 0
    /\ is_match' = FALSE
    /\ filtered_list' = <<>>
    /\ origin' = <<>>
    /\ UNCHANGED <<now, clientVars, netVars, raceVars>>

\* search_notams(location, query, search_type, is_regex) is called
Call(q, st, rx) == CallStart(q, st, rx) /\ UNCHANGED histVars

\* search_notams is called again with the arguments of the previous call
Recall ==
    /\ calls >= 1
    /\ CallStart(query, search_type, is_regex)
    /\ prev_ret' = ret
    /\ upstream' = upstream

\* lines 16-17: the cached token is still good, no request
AuthCached ==
    /\ pc = "auth"
    /\ CacheValid
    /\ pc' = "get"
    /\ UNCHANGED <<now, clientVars, netVars, calls, query, search_type, is_regex,
                   post_resp, raw_data, ret, trace, loopVars, raceVars, histVars>>

\* lines 18-24: the exchange succeeds and the cache is replaced
AuthRefresh(resp) ==
    /\ pc = "auth"
    /\ ~CacheValid
    /\ resp.kind = "ok"
    /\ posts' = posts + 1
    /\ trace' = Append(trace, "POST")
    /\ post_resp' = resp
    /\ access_token' = resp.token
    /\ expires_at' = IntSeconds(now) + Lifetime(resp)
    /\ expires_src' = resp.token
    /\ pc' = "get"
    /\ UNCHANGED <<now, gets, calls, query, search_type, is_regex, raw_data, ret,
                   loopVars, raceVars, histVars>>

\* lines 21 and 23 with the failure swallowed: the call goes on to the GET
AuthFailSwallowed(resp) ==
    /\ pc = "auth"
    /\ ~CacheValid
    /\ resp.kind # "ok"
    /\ posts' = posts + 1
    /\ trace' = Append(trace, "POST")
    /\ post_resp' = resp
    /\ pc' = "get"
    /\ UNCHANGED <<now, clientVars, gets, calls, query, search_type, is_regex,
                   raw_data, ret, loopVars, raceVars, histVars>>

\* a failed exchange that still renews the cached expiry (line 24 run alone)
AuthFailRenewsExpiry(resp) ==
    /\ pc = "auth"
    /\ ~CacheValid
    /\ resp.kind # "ok"
    /\ posts' = posts + 1
    /\ trace' = Append(trace, "POST")
    /\ post_resp' = resp
    /\ expires_at' = IntSeconds(now) + DefaultLifetime
    /\ ret' = Raises(IF resp.kind = "http_error" THEN "HTTPError" ELSE "KeyError")
    /\ pc' = "idle"
    /\ UNCHANGED <<now, access_token, expires_src, gets, calls, query, search_type,
                   is_regex, raw_data, loopVars, raceVars, histVars>>

\* lines 21 and 23: raise_for_status() or data['access_token'] raises
AuthFail(resp) ==
    /\ pc = "auth"
    /\ ~CacheValid
    /\ resp.kind # "ok"
    /\ posts' = posts + 1
    /\ trace' = Append(trace, "POST")
    /\ post_resp' = resp
    /\ ret' = Raises(IF resp.kind = "http_error" THEN "HTTPError" ELSE "KeyError")
    /\ pc' = "idle"
    /\ UNCHANGED <<now, clientVars, gets, calls, query, search_type, is_regex,
                   raw_data, loopVars, raceVars, histVars>>

(***************************************************************************)
(* Raw fetcher: get_raw_notams, lines 26-37, and lines 43-47.              *)
(***************************************************************************)
\* line 44 testing for an error status instead of for "Success"
StatusNotError(data) == data.status # <<"E", "r", "r", "o", "r">>

\* line 44: raw_data.get('status') != "Success" is false
StatusIsSuccess(data) == data.status = Success

\* line 36 with the failed GET issued again instead of raising
GetFailRetried ==
    /\ pc = "get"
    /\ gets' = gets + 1
    /\ trace' = Append(trace, "GET")
    /\ UNCHANGED <<now, clientVars, posts, calls, pc, query, search_type, is_regex,
                   post_resp, raw_data, ret, loopVars, raceVars, histVars>>

\* line 36: raise_for_status() raises
GetFail ==
    /\ pc = "get"
    /\ gets' = gets + 1
    /\ trace' = Append(trace, "GET")
    /\ ret' = Raises("HTTPError")
    /\ pc' = "idle"
    /\ UNCHANGED <<now, clientVars, posts, calls, query, search_type, is_regex,
                   post_resp, raw_data, loopVars, raceVars, histVars>>

\* lines 35-47: the feed is fetched; anything but "Success" returns []
GetFeed(status, geojson) ==
    /\ pc = "get"
    /\ gets' = gets + 1
    /\ trace' = Append(trace, "GET")
    /\ raw_data' = [status |-> status, geojson |-> geojson, fetched |-> TRUE]
    /\ IF StatusIsSuccess(raw_data')
       THEN pc' = "loop" /\ ret' = ret
       ELSE pc' = "idle" /\ ret' = Returns(<<>>)
    /\ UNCHANGED <<now, clientVars, posts, calls, query, search_type, is_regex,
                   post_resp, loopVars, raceVars, histVars>>

(***************************************************************************)
(* The pass over the features: search_notams, lines 53-177.                *)
(***************************************************************************)
\* origin after the merge or append of the feature at position src
AccumulateOrigin(list, org, new_notam, src) ==
    LET existing_idx == ExistingIdx(list, new_notam)
    IN  IF existing_idx # 0
        THEN IF MergeReplaces(new_notam, list[existing_idx])
             THEN [org EXCEPT ![existing_idx] = src]
             ELSE org
        ELSE Append(org, src)

\* line 104 testing for the label "NOTAMC" instead of the type code
IsCancellationByLabel(item) == TypeCode(item) = <<"N", "O", "T", "A", "M", "C">>

\* line 104: if type_code == 'C': continue
IsCancellation(item) == TypeCode(item) = <<"C">>

\* one iteration of the loop of line 53
LoopStep ==
    /\ pc = "loop"
    /\ idx < Len(features)
    /\ LET item == features[idx + 1]
           outcome == MatchOutcome(item, query, search_type, is_regex)
       IN  IF outcome = "raise"
           THEN /\ ret' = Raises("re.error")
                /\ pc' = "idle"
                /\ UNCHANGED loopVars
           ELSE /\ idx' = idx + 1
                /\ is_match' = (outcome = "match")
                /\ IF outcome = "match" /\ ~IsCancellation(item)
                   THEN /\ filtered_list' = Accumulate(filtered_list, NewNotam(item))
                        /\ origin' = AccumulateOrigin(filtered_list, origin,
                                                      NewNotam(item), idx + 1)
                   ELSE UNCHANGED <<filtered_list, origin>>
                /\ UNCHANGED <<pc, ret>>
    /\ UNCHANGED <<now, clientVars, netVars, calls, query, search_type, is_regex,
                   post_resp, raw_data, trace, raceVars, histVars>>

\* lines 173-177: the loop is over, the keys are dropped, the list returned
Finish ==
    /\ pc = "loop"
    /\ idx = Len(features)
    /\ ret' = Returns(Cleanup(filtered_list))
    /\ pc' = "idle"
    /\ UNCHANGED <<now, clientVars, netVars, calls, query, search_type, is_regex,
                   post_resp, raw_data, trace, loopVars, raceVars, histVars>>

(***************************************************************************)
(* Spec: one client, one caller at a time.                                 *)
(***************************************************************************)
\* FAAClient.__init__, lines 7-13
Init ==
    /\ now = 0
    /\ access_token = 0
    /\ expires_at = 0
    /\ expires_src = 0
    /\ posts = 0
    /\ gets = 0
    /\ calls = 0
    /\ pc = "idle"
    /\ query = <<>>
    /\ search_type = "keyword"
    /\ is_regex = FALSE
    /\ post_resp = NoResponse
    /\ raw_data = NoData
    /\ idx = 0
    /\ is_match = FALSE
    /\ filtered_list = <<>>
    /\ origin = <<>>
    /\ ret = NoReturn
    /\ trace = <<>>
    /\ rpc = [t \in Threads |-> "idle"]
    /\ rresp = [t \in Threads |-> NoResponse]
    /\ upstream = NoData
    /\ prev_ret = NoReturn

Next ==
    \/ Tick
    \/ \E q \in ClientQueries, st \in SearchTypes, rx \in BOOLEAN : Call(q, st, rx)
    \/ AuthCached
    \/ \E resp \in PostResponses(posts + 1) : AuthRefresh(resp)
    \/ \E resp \in PostResponses(posts + 1) : AuthFail(resp)
    \/ GetFail
    \/ \E st \in FeedStatuses, g \in FeedsOf(ClientPool, MaxClientFeed) : GetFeed(st, g)
    \/ LoopStep
    \/ Finish

Spec == Init /\ [][Next]_vars

(***************************************************************************)
(* SpecSearch, SpecFilter: the pass of search_notams over a fetched feed.  *)
(* The initial states are those of a first call on a fresh client at line  *)
(* 47: the token exchanged, the feed fetched with status "Success"; the    *)
(* feed and the arguments are drawn from the sets given.                   *)
(***************************************************************************)
InitLoop(queries, feeds) ==
    /\ now = 0
    /\ access_token = 1
    /\ expires_at = IntSeconds(0) + DefaultLifetime
    /\ expires_src = 1
    /\ posts = 1
    /\ gets = 1
    /\ calls = 1
    /\ pc = "loop"
    /\ query \in queries
    /\ search_type \in SearchTypes
    /\ is_regex \in BOOLEAN
    /\ post_resp = [kind |-> "ok", token |-> 1, expires_in |-> NoExpiresIn]
    /\ raw_data \in {[status |-> Success, geojson |-> g, fetched |-> TRUE] : g \in feeds}
    /\ idx = 0
    /\ is_match = FALSE
    /\ filtered_list = <<>>
    /\ origin = <<>>
    /\ ret = NoReturn
    /\ trace = <<"POST", "GET">>
    /\ rpc = [t \in Threads |-> "idle"]
    /\ rresp = [t \in Threads |-> NoResponse]
    /\ upstream = raw_data
    /\ prev_ret = NoReturn

InitSearch == InitLoop(SearchQueries, FeedsOf(SearchPool, MaxFeed))

InitFilter == InitLoop(FilterQueries, FeedsOf(FilterPool, MaxFilterFeed))

NextLoop == LoopStep \/ Finish

SpecSearch == InitSearch /\ [][NextLoop]_vars

SpecFilter == InitFilter /\ [][NextLoop]_vars

(***************************************************************************)
(* SpecTwice: one client called again and again with the same arguments    *)
(* while the NOTAM endpoint keeps serving the same feed.  Time passes       *)
(* between the calls, so a later call finds the token of an earlier one     *)
(* still good or has to exchange a new one; either request can fail.        *)
(***************************************************************************)
\* the feeds the unchanged endpoint may hold
TwiceFeeds ==
    {[status |-> Success, geojson |-> g, fetched |-> TRUE] :
        g \in {<<DomShort, Other, IntlShort>>, <<LongText, DomShort, MidText>>}}

TwiceQueries == {<<"0", "7">>, <<"[">>}

\* before the first call: the endpoint holds the feed it will keep serving
Publish(feed) ==
    /\ calls = 0
    /\ ~upstream.fetched
    /\ upstream' = feed
    /\ UNCHANGED <<now, clientVars, netVars, calls, callVars, loopVars, raceVars,
                   prev_ret>>

\* the first call on the client
FirstCall(q, st, rx) ==
    /\ calls = 0
    /\ upstream.fetched
    /\ Call(q, st, rx)

\* lines 35-47: the GET answered with the unchanged feed
GetUpstream == GetFeed(upstream.status, upstream.geojson)

NextTwice ==
    \/ Tick
    \/ \E feed \in TwiceFeeds : Publish(feed)
    \/ \E q \in TwiceQueries, st \in SearchTypes, rx \in BOOLEAN : FirstCall(q, st, rx)
    \/ Recall
    \/ AuthCached
    \/ \E resp \in PostResponses(posts + 1) : AuthRefresh(resp)
    \/ \E resp \in PostResponses(posts + 1) : AuthFail(resp)
    \/ GetFail
    \/ GetUpstream
    \/ LoopStep
    \/ Finish

SpecTwice == Init /\ [][NextTwice]_vars

(***************************************************************************)
(* SpecRace: two threads of a concurrent host run _authenticate on the one *)
(* client.  Nothing in lines 15-24 excludes the other thread, so each      *)
(* statement is a step of its own.                                         *)
(***************************************************************************)
\* a search call of thread t enters _authenticate
RStart(t) ==
    /\ rpc[t] \in {"idle", "done"}
    /\ calls < MaxCalls
    /\ calls' = calls + 1
    /\ rpc' = [rpc EXCEPT ![t] = "check"]
    /\ UNCHANGED <<now, clientVars, netVars, callVars, loopVars, rresp, histVars>>

\* lines 16-17
RCheck(t) ==
    /\ rpc[t] = "check"
    /\ rpc' = [rpc EXCEPT ![t] = IF CacheValid THEN "done" ELSE "post"]
    /\ UNCHANGED <<now, clientVars, netVars, calls, callVars, loopVars, rresp, histVars>>

\* lines 18-22: the POST and its decoded response
RPost(t, resp) ==
    /\ rpc[t] = "post"
    /\ resp.kind = "ok"
    /\ posts' = posts + 1
    /\ rresp' = [rresp EXCEPT ![t] = resp]
    /\ rpc' = [rpc EXCEPT ![t] = "store_token"]
    /\ UNCHANGED <<now, clientVars, gets, calls, callVars, loopVars, histVars>>

\* line 23
RStoreToken(t) ==
    /\ rpc[t] = "store_token"
    /\ access_token' = rresp[t].token
    /\ rpc' = [rpc EXCEPT ![t] = "store_expiry"]
    /\ UNCHANGED <<now, expires_at, expires_src, netVars, calls, callVars,
                   loopVars, rresp, histVars>>

\* line 24
RStoreExpiry(t) ==
    /\ rpc[t] = "store_expiry"
    /\ expires_at' = IntSeconds(now) + Lifetime(rresp[t])
    /\ expires_src' = rresp[t].token
    /\ rpc' = [rpc EXCEPT ![t] = "done"]
    /\ UNCHANGED <<now, access_token, netVars, calls, callVars, loopVars, rresp, histVars>>

NextRace ==
    \/ Tick
    \/ \E t \in Threads : RStart(t)
    \/ \E t \in Threads : RCheck(t)
    \/ \E t \in Threads : \E resp \in PostResponses(posts + 1) : RPost(t, resp)
    \/ \E t \in Threads : RStoreToken(t)
    \/ \E t \in Threads : RStoreExpiry(t)

SpecRace == Init /\ [][NextRace]_vars

(***************************************************************************)
(* Claims.                                                                 *)
(***************************************************************************)

\* C1 (Spec): whenever a call passes through _authenticate, it issues no
\* POST if a token is cached and now < expiresAt - 60, and exactly one POST
\* otherwise (empty cache, or now >= expiresAt - 60); so two consecutive
\* calls within the lifetime of the first call's token issue one POST.
C1_TokenCaching ==
    [][ (pc = "auth" /\ pc' # "auth") =>
            IF access_token # 0 /\ now < (expires_at - 60) * TicksPerSec
            THEN posts' = posts /\ trace' = trace
                 /\ access_token' = access_token /\ expires_at' = expires_at
            ELSE posts' = posts + 1 /\ trace' = <<"POST">> ]_vars

\* the second call has passed _authenticate on the cached token: no POST in
\* this call, one POST in total
C1_Witness ==
    /\ calls = 2
    /\ pc = "get"
    /\ trace = <<>>
    /\ posts = 1
    /\ now > 0

\* C2 as stated: no two emitted records share a dedup key.
C2_Original ==
    ret.kind = "return" =>
        \A i, j \in 1..Len(filtered_list) :
            i # j => filtered_list[i].n_key # filtered_list[j].n_key

\* C2 (SpecSearch), amended: a record is added to the result set as an entry
\* of its own only when no record accumulated so far has both its dedup key
\* and a similar text; two emitted records may share a key when the later
\* one's text was not similar.
C2_AppendOnlyWithoutCandidate ==
    [][ Len(filtered_list') > Len(filtered_list) =>
            /\ Len(filtered_list') = Len(filtered_list) + 1
            /\ \A k \in 1..Len(filtered_list) :
                  /\ filtered_list'[k] = filtered_list[k]
                  /\ ~MergeCandidate(filtered_list[k],
                                     filtered_list'[Len(filtered_list')]) ]_vars

\* a returned result set in which two records share a dedup key
C2_Witness ==
    /\ ret.kind = "return"
    /\ \E i, j \in 1..Len(filtered_list) :
          i # j /\ filtered_list[i].n_key = filtered_list[j].n_key

\* each record's text stripped, freed of its own leading location, uppercased
OwnSimText(n) == SimText(n.location, n.text)

\* C3 as stated: the emitted sequence never holds two records with the same
\* dedup key whose location-stripped uppercased texts are similar.
C3_Original ==
    ret.kind = "return" =>
        \A i, j \in 1..Len(filtered_list) :
            i # j =>
                ~(/\ filtered_list[i].n_key = filtered_list[j].n_key
                  /\ TextSimilar(OwnSimText(filtered_list[i]),
                                 OwnSimText(filtered_list[j])))

\* the feature the loop is about to consume
CurrentItem == features[idx + 1]

\* the loop is about to merge the current feature into filtered_list[k]
MergesInto(k) ==
    /\ pc = "loop"
    /\ idx < Len(features)
    /\ MatchOutcome(CurrentItem, query, search_type, is_regex) = "match"
    /\ ~IsCancellation(CurrentItem)
    /\ k = ExistingIdx(filtered_list, NewNotam(CurrentItem))
    /\ k # 0

\* C4 as stated: when an INTL and a DOM record are merged, the record kept
\* is the INTL one, whichever came first and whatever the ids' lengths.
C4_Original ==
    [][ \A k \in 1..Len(filtered_list) :
            ( /\ MergesInto(k)
              /\ {filtered_list[k].classification,
                  NewNotam(CurrentItem).classification} = {INTL, DOM}
              /\ idx' = idx + 1 )
            => filtered_list'[k].classification = INTL ]_vars

\* C5 (SpecSearch): no accumulated or returned record comes from a feature
\* of type "C", and consuming such a feature leaves the accumulated list as
\* it was.
C5_CancellationExcluded ==
    /\ [](/\ Len(origin) = Len(filtered_list)
          /\ \A k \in 1..Len(filtered_list) :
                /\ features[origin[k]].type # <<"C">>
                /\ filtered_list[k] = NewNotam(features[origin[k]])
          /\ ret.kind = "return" => ret.val = Cleanup(filtered_list))
    /\ [][ (pc = "loop" /\ idx < Len(features) /\ CurrentItem.type = <<"C">>)
              => filtered_list' = filtered_list ]_vars

\* a cancellation that passes the filter and would merge into the record
\* before it has been consumed, and the call returned that record alone
C5_Witness ==
    /\ ret.kind = "return"
    /\ features = <<DomShort, Cancel>>
    /\ is_match
    /\ Len(ret.val) = 1
    /\ ret.val[1] = PopKey(NewNotam(DomShort))

\* C6 as stated: with is_regex set and a pattern that does not compile, the
\* call does not raise, in keyword and in runway mode.
C6_Original ==
    (is_regex /\ ~ReCompiles(QueryStr(query))) => ret.kind # "raise"

\* C7 as stated: in keyword mode with is_regex set and a non-empty pattern
\* that does not compile, a feature matches exactly when the query occurs,
\* case-insensitively, in the combined raw and translated text.
C7_Original ==
    ( /\ search_type = "keyword"
      /\ is_regex
      /\ QueryStr(query) # <<>>
      /\ ~ReCompiles(QueryStr(query))
      /\ idx > 0 )
    => (is_match <=> Contains(FullText(features[idx]), Upper(QueryStr(query))))

\* C8 as stated: once every thread has left _authenticate, the cached token
\* and the cached expiry both come from the latest token response.
C8_Original ==
    ( /\ \A t \in Threads : rpc[t] \in {"idle", "done"}
      /\ posts > 0 )
    => (access_token = posts /\ expires_src = posts)

\* C9 (Spec): when the token endpoint answers with a non-success status or
\* with a body without access_token, the call has ended with a raised
\* error, having issued that one POST and no GET.
C9_AuthFailureSurfaces ==
    post_resp.kind \in {"http_error", "no_access_token"} =>
        /\ pc = "idle"
        /\ ret.kind = "raise"
        /\ trace = <<"POST">>
        /\ ~raw_data.fetched

\* a call whose token response lacked access_token, on a client that had
\* fetched before
C9_Witness ==
    /\ post_resp.kind = "no_access_token"
    /\ ret = Raises("KeyError")
    /\ gets > 0

\* C10 (Spec): when the fetched feed's status is not "Success", the call has
\* ended returning the empty list, whatever the feed holds.
C10_FeedNoContent ==
    (raw_data.fetched /\ raw_data.status # Success) =>
        /\ pc = "idle"
        /\ ret = Returns(<<>>)

\* a feed with no status and one feature was fetched, and [] returned
C10_Witness ==
    /\ raw_data.fetched
    /\ raw_data.status = Absent
    /\ raw_data.geojson = <<DomShort>>
    /\ ret = Returns(<<>>)

\* C11 (SpecSearch): a step of the loop changes the accumulated list only by
\* appending one record after all earlier ones (a new group, in first-seen
\* order) or by replacing, in place, the record of the group the feature
\* merges into (the position of the group's first-seen record); every other
\* record keeps its position.
C11_OrderPreserved ==
    [][ filtered_list' # filtered_list =>
          \/ /\ Len(filtered_list') = Len(filtered_list) + 1
             /\ SubSeq(filtered_list', 1, Len(filtered_list)) = filtered_list
             /\ origin'[Len(filtered_list')] = idx + 1
             /\ \A k \in 1..Len(origin) : origin[k] < idx + 1
          \/ /\ Len(filtered_list') = Len(filtered_list)
             /\ \E k \in 1..Len(filtered_list) :
                   /\ MergesInto(k)
                   /\ filtered_list'[k] = NewNotam(CurrentItem)
                   /\ \A j \in 1..Len(filtered_list) :
                         j # k => filtered_list'[j] = filtered_list[j] ]_vars

\* the third feature replaced the first record in place; the unrelated
\* second record kept its position behind it
C11_Witness ==
    /\ ret.kind = "return"
    /\ features = <<DomShort, Other, IntlShort>>
    /\ ret.val = <<PopKey(NewNotam(IntlShort)), PopKey(NewNotam(Other))>>

\* word occurs in text with no word character right before or right after it
StandaloneAt(text, word, k) ==
    /\ k + Len(word) - 1 <= Len(text)
    /\ SubSeq(text, k, k + Len(word) - 1) = word
    /\ (k = 1 \/ text[k - 1] \notin WordChars)
    /\ (k + Len(word) > Len(text) \/ text[k + Len(word)] \notin WordChars)

\* q occurs in text with no digit right before or right after it
UndigitedAt(text, q, k) ==
    /\ k + Len(q) - 1 <= Len(text)
    /\ SubSeq(text, k, k + Len(q) - 1) = q
    /\ (k = 1 \/ text[k - 1] \notin Digits)
    /\ (k + Len(q) > Len(text) \/ text[k + Len(q)] \notin Digits)

\* C13 (SpecFilter): in runway mode without regex and with a non-empty query,
\* the feature just examined matches if and only if its combined uppercased
\* text holds RWY or RUNWAY as a standalone word and holds the uppercased
\* query at a position with no digit right before and no digit right after.
C13_RunwayBoundary ==
    (search_type = "runway" /\ ~is_regex /\ QueryStr(query) # <<>> /\ idx > 0) =>
        LET text == FullText(features[idx])
            q    == Upper(QueryStr(query))
        IN  is_match <=>
              /\ \E k \in 1..Len(text) :
                    \/ StandaloneAt(text, <<"R", "W", "Y">>, k)
                    \/ StandaloneAt(text, <<"R", "U", "N", "W", "A", "Y">>, k)
              /\ \E k \in 1..Len(text) : UndigitedAt(text, q, k)

\* query 07 in runway mode: "RWY 075 CLSD" was examined and rejected, then
\* "rwy 07r clsd" was examined and accepted
C13_Witness ==
    /\ search_type = "runway" /\ ~is_regex
    /\ query = <<"0", "7">>
    /\ features = <<Other, LowerRwy07R>>
    /\ idx = 2
    /\ is_match
    /\ filtered_list = <<NewNotam(LowerRwy07R)>>

\* C14 (SpecFilter): when the query is empty after trimming whitespace (in any
\* mode, runway and is_regex included) or search_type is "all" (for any
\* query), the filter never raises and every feature examined is classified
\* as matching.
C14_EmptyQueryAndAll ==
    ((\A k \in 1..Len(query) : query[k] \in Whitespace) \/ search_type = "all") =>
        /\ ret.kind # "raise"
        /\ idx > 0 => is_match
        /\ ret.kind = "return" => idx = Len(features)

\* a blank query in runway mode with is_regex set, and the query "[" in mode
\* all with is_regex set: the feature examined matched
C14_Witness ==
    /\ idx = 1
    /\ is_match
    /\ is_regex
    /\ \/ query = <<" ">> /\ search_type = "runway"
       \/ query = <<"[">> /\ search_type = "all"
    /\ features[1] = Translated

\* C15 (SpecSearch): no record of the returned sequence carries the dedup key
\* field, whether the record was appended or replaced another in a merge.
C15_KeyHidden ==
    ret.kind = "return" =>
        \A k \in 1..Len(ret.val) : "n_key" \notin DOMAIN ret.val[k]

\* the returned list holds a record that replaced another during a merge,
\* behind a record that was appended
C15_Witness ==
    /\ ret.kind = "return"
    /\ features = <<Other, DomShort, IntlShort>>
    /\ Len(ret.val) = 2
    /\ ret.val[2].id = NotamId(IntlShort)
    /\ ret.val[2].classification = INTL
    /\ filtered_list[2].n_key = NKey(IntlShort)

\* the feature the k-th accumulated record was built from
Upstream(k) == features[origin[k]]

\* the location of the claim: uppercased, a 3-character code prefixed by K
PrefixedLocation(loc) ==
    LET upper == Upper(OrEmpty(loc))
    IN  IF Len(upper) = 3 THEN <<"K">> \o upper ELSE upper

\* C16 as stated (SpecFilter): the location of every emitted record is the
\* upstream location uppercased, a code of exactly 3 characters prefixed by K,
\* every other code passed through unchanged.
C16_Original ==
    ret.kind = "return" =>
        \A k \in 1..Len(ret.val) :
            ret.val[k].location = PrefixedLocation(Upstream(k).location)

\* C16 (SpecFilter): the location of every emitted record is the upstream
\* location uppercased and nothing else (empty when there is none); the K
\* prefix of a 3-character code is applied only to the location component of
\* the dedup key, which is not emitted.
C16_LocationUppercasedOnly ==
    ret.kind = "return" =>
        \A k \in 1..Len(ret.val) :
            /\ ret.val[k].location = Upper(OrEmpty(Upstream(k).location))
            /\ filtered_list[k].n_key[4] = PrefixedLocation(Upstream(k).location)

\* the upstream location "lax" is emitted as "LAX" while the key holds "KLAX"
C16_Witness ==
    /\ ret.kind = "return"
    /\ features = <<Other>>
    /\ ret.val[1].location = <<"L", "A", "X">>
    /\ filtered_list[1].n_key[4] = <<"K", "L", "A", "X">>

\* the date of the claim: characters at offsets 2 through 11 of the timestamp
\* without its "-", ":" and "T"
DateDigits(ts) ==
    LET clean == SelectSeq(ts, LAMBDA c : c \notin {"-", ":", "T"})
    IN  SubSeq(clean, 3, Min(12, Len(clean)))

\* d is the date the claim gives for the upstream timestamp ts
IsClaimedDate(d, ts) ==
    IF OrEmpty(ts) = <<>>
    THEN d = <<"P", "E", "R", "M">>
    ELSE /\ d = DateDigits(ts)
         /\ Len(d) = 10
         /\ \A j \in 1..Len(d) : d[j] \in Digits

\* C17 as stated (SpecFilter): start and end of every emitted record are PERM
\* exactly when the upstream timestamp is empty or absent, and otherwise the
\* 10 digits YYMMDDHHMM at offsets 2 through 11 of the timestamp freed of
\* "-", ":" and "T".
C17_Original ==
    ret.kind = "return" =>
        \A k \in 1..Len(ret.val) :
            /\ IsClaimedDate(ret.val[k].start, Upstream(k).effectiveStart)
            /\ IsClaimedDate(ret.val[k].end, Upstream(k).effectiveEnd)

\* the id of the claim, built from the upstream fields
ClaimedId(item) ==
    LET series  == Strip(OrEmpty(item.series))
        number  == Strip(GetOr(item.number, <<"0", "0", "0", "0">>))
        prefixed == /\ series # <<>>
                    /\ Len(number) >= Len(series)
                    /\ SubSeq(number, 1, Len(series)) = series
        rest    == IF prefixed THEN SubSeq(number, Len(series) + 1, Len(number))
                   ELSE number
        slashes == {p \in 1..Len(rest) : rest[p] = "/"}
        slash   == CHOOSE p \in slashes : TRUE
        suffix  == SubSeq(rest, slash + 1, Len(rest))
        cleaned == IF /\ Cardinality(slashes) = 1
                      /\ Len(suffix) \in {1, 2}
                      /\ \A j \in 1..Len(suffix) : suffix[j] \in Digits
                   THEN SubSeq(rest, 1, slash - 1)
                   ELSE rest
        given   == Strip(GetOr(item.year, <<>>))
        year    == IF given = <<>> THEN <<"2", "6">>
                   ELSE SubSeq(given, Max(1, Len(given) - 1), Len(given))
    IN  series \o cleaned \o <<"/">> \o year
        \o <<" ", "N", "O", "T", "A", "M">> \o GetOr(item.type, <<"N">>)

\* C18 (SpecFilter): the id of every emitted record is series + cleaned number
\* + "/" + year + " NOTAM" + type: the cleaned number is the number without
\* the series it starts with and then, if it holds a single "/", without a
\* "/" suffix of 1 or 2 digits; the year is the last two characters of the
\* upstream year, "26" when there is none (absent or blank); the type is N
\* when absent.  Series A, number A0041/26, year 2026, type N give
\* "A0041/26 NOTAMN".
C18_IdReconstruction ==
    /\ ret.kind = "return" =>
          \A k \in 1..Len(ret.val) : ret.val[k].id = ClaimedId(Upstream(k))
    /\ ClaimedId(DomLong) = <<"A", "0", "0", "4", "1", "/", "2", "6", " ",
                              "N", "O", "T", "A", "M", "N">>

\* the feed of series A, number A0041/26, year 2026 followed by the notice
\* with number A12/3/4 and an empty year
C18_Witness ==
    /\ ret.kind = "return"
    /\ features = <<DomLong, TwoSlashes>>
    /\ ret.val[1].id = <<"A", "0", "0", "4", "1", "/", "2", "6", " ",
                         "N", "O", "T", "A", "M", "N">>
    /\ ret.val[2].id = <<"A", "1", "2", "/", "3", "/", "4", "/", "2", "6", " ",
                         "N", "O", "T", "A", "M", "N">>

\* C19 as stated (SpecSearch): when two merge candidates of the same
\* classification (both INTL or both DOM) are merged, the record kept is the
\* one with the longer id, whichever of the two came first in the feed.
C19_Original ==
    [][ \A k \in 1..Len(filtered_list) :
            ( /\ MergesInto(k)
              /\ filtered_list[k].classification
                    = NewNotam(CurrentItem).classification
              /\ filtered_list[k].classification \in {INTL, DOM}
              /\ idx' = idx + 1 )
            => Len(filtered_list'[k].id)
                  = Max(Len(filtered_list[k].id), Len(NewNotam(CurrentItem).id))
      ]_vars

\* C20 (Spec): one call issues at most one POST and at most one GET, the POST
\* first; the GET is issued only after the token step of the same call ended
\* well (the cached token was accepted with no POST, or the POST succeeded);
\* after a failed POST or a failed GET the call is over and has raised, so
\* neither is repeated.
C20_RoundTripOrdering ==
    /\ [](/\ trace \in {<<>>, <<"POST">>, <<"GET">>, <<"POST", "GET">>}
          /\ post_resp.kind \in {"http_error", "no_access_token"} =>
                trace = <<"POST">> /\ pc = "idle" /\ ret.kind = "raise"
          /\ (trace # <<>> /\ trace[Len(trace)] = "GET" /\ ~raw_data.fetched) =>
                pc = "idle" /\ ret.kind = "raise")
    /\ [][ (trace' # trace /\ trace' # <<>> /\ trace'[Len(trace')] = "GET") =>
             \/ trace = <<"POST">> /\ post_resp.kind = "ok"
                /\ access_token = post_resp.token
             \/ trace = <<>> /\ post_resp.kind = "none"
                /\ access_token # 0 /\ now < (expires_at - 60) * TicksPerSec
         ]_vars

\* the second call accepted the cached token, issued its one GET, which
\* failed, and raised
C20_Witness ==
    /\ calls = 2
    /\ pc = "idle"
    /\ trace = <<"GET">>
    /\ ret = Raises("HTTPError")
    /\ posts = 1
    /\ gets = 2

\* the call came to its end having fetched the feed: it returned a list or
\* its filter raised
Completed(r) == r.kind = "return" \/ (r.kind = "raise" /\ r.err = "re.error")

\* C12 (SpecTwice): a call made again on the same client with the same
\* arguments, while the upstream serves the same feed, ends as the call
\* before it did: the same records in the same order, whether the later call
\* reused the cached token or exchanged a new one.
C12_Idempotent ==
    (pc = "idle" /\ calls >= 2 /\ Completed(prev_ret) /\ Completed(ret)) =>
        ret = prev_ret

\* the second call reused the token of the first, fetched the same three
\* features and returned the same two records
C12_Witness ==
    /\ calls = 2
    /\ pc = "idle"
    /\ posts = 1
    /\ trace = <<"GET">>
    /\ upstream.geojson = <<DomShort, Other, IntlShort>>
    /\ ret = Returns(<<PopKey(NewNotam(IntlShort)), PopKey(NewNotam(Other))>>)
    /\ prev_ret = ret

\* C21 (Spec): a credential exchange that fails (an error status, or a body
\* with no access_token) leaves the cached token and the cached expiry as they
\* were before the call; the cache the failed call leaves behind is one the
\* check of line 16 rejects, so the next call exchanges again.
C21_CacheKeptOnFailure ==
    /\ [][ (posts' = posts + 1
            /\ post_resp'.kind \in {"http_error", "no_access_token"}) =>
              /\ access_token' = access_token
              /\ expires_at' = expires_at ]_vars
    /\ [](post_resp.kind \in {"http_error", "no_access_token"} =>
              ~(access_token # 0 /\ now < (expires_at - 60) * TicksPerSec))

\* the first call cached token 1; the second and the third call each found
\* it expired, exchanged, and failed: the cache still holds token 1 and its
\* expiry
C21_Witness ==
    /\ calls = 3
    /\ pc = "idle"
    /\ posts = 3
    /\ post_resp.kind = "no_access_token"
    /\ ret = Raises("KeyError")
    /\ access_token = 1
    /\ expires_src = 1
    /\ expires_at # 0

\* the j-th feature of the feed passes the search filter and is not of type C
Kept(j) ==
    /\ MatchOutcome(features[j], query, search_type, is_regex) = "match"
    /\ GetOr(features[j].type, <<"N">>) # <<"C">>

\* C22 (SpecSearch): when the call returns, every feature of the feed that
\* passes the filter and is not of type C has its dedup key on some record of
\* the accumulated list, every record of that list is, field for field, the
\* normalized record of one such feature, and the returned sequence is that
\* list without the keys; so a merge substitutes whole same-key records and
\* removes none.
C22_NoNoticeLost ==
    ret.kind = "return" =>
        LET kept   == {j \in 1..Len(features) : Kept(j)}
            record == [j \in kept |-> NewNotam(features[j])]
        IN  /\ idx = Len(features)
            /\ \A j \in kept :
                  \E k \in 1..Len(filtered_list) :
                      filtered_list[k].n_key = record[j].n_key
            /\ \A k \in 1..Len(filtered_list) :
                  \E j \in kept : filtered_list[k] = record[j]
            /\ Len(ret.val) = Len(filtered_list)
            /\ \A k \in 1..Len(ret.val) :
                  ret.val[k] = [f \in DOMAIN filtered_list[k] \ {"n_key"}
                                   |-> filtered_list[k][f]]

\* runway 07 over a domestic notice, an unrelated notice the filter rejects
\* and the international rendering of the first: one record is returned, the
\* whole international one, under the key of the domestic notice
C22_Witness ==
    /\ ret.kind = "return"
    /\ search_type = "runway"
    /\ query = <<"0", "7">>
    /\ features = <<DomShort, Other, IntlShort>>
    /\ Len(ret.val) = 1
    /\ ret.val[1].text = IntlShort.text
    /\ ret.val[1].classification = INTL
    /\ filtered_list[1].n_key = NKey(DomShort)

=============================================================================
